---- MODULE Spec2Model ----
(***************************************************************************)
(* A model of the Thirukkural couplet API: the couplets router             *)
(* (routes/couplets.js), the translators router (routes/translators.js),   *)
(* their request validators (middleware/validators.js), the error          *)
(* middleware and the embedded document store they query.                  *)
(*                                                                         *)
(* Texts, author names, translator IDs and search terms are sequences of   *)
(* one-character strings, so that lower-casing, stripping and pattern      *)
(* matching are computed character by character as the code does.         *)
(***************************************************************************)
EXTENDS Integers, Sequences, FiniteSets, TLC

VARIABLES
    db,      \* the store's documents, in the order the store returns them
    req,     \* the request being served (the last one served)
    resp,    \* the response that request ended in (sent = FALSE: none)
    ops,     \* the store operations executed for that request, in order
    phase,   \* "idle": waiting for a request; "done": the handler has run
    alive,   \* FALSE once the process died of an unhandled rejection
    nodeEnv, \* process.env.NODE_ENV
    fin,     \* input of the last direct application of a helper function
    fout     \* its result

vars == <<db, req, resp, ops, phase, alive, nodeEnv, fin, fout>>

(***************************************************************************)
(* Bounds of the model.                                                    *)
(***************************************************************************)
MaxDocs == 3      \* documents in the store
MaxPage == 3      \* largest page number requested
MaxLimit == 3     \* largest explicit limit requested
MaxTermLen == 2   \* longest search term requested
MaxIds == 2       \* longest allow-list given to filterTranslations directly

(***************************************************************************)
(* Program constants.                                                      *)
(***************************************************************************)
MaxCoupletNumber == 1330
MaxLimitAllowed == 100
DefaultLimit == 10
MaxChapter == 133
MaxSection == 9
MaxDivision == 3
MinSearchLen == 2
MaxSearchLen == 100

(***************************************************************************)
(* Characters.  String.prototype.toLowerCase on the letters used here.     *)
(***************************************************************************)
UpperCase == {"A", "B", "C", "E", "G", "P", "S", "U"}
LowerCase == {"a", "b", "c", "e", "g", "p", "s", "u", "x", "y", "z"}
Digits == {"0", "1", "2"}

toLowerCase(c) ==
    CASE c = "A" -> "a" [] c = "B" -> "b" [] c = "C" -> "c" [] c = "E" -> "e"
      [] c = "G" -> "g" [] c = "P" -> "p" [] c = "S" -> "s" [] c = "U" -> "u"
      [] OTHER -> c

LowerStr(s) == [i \in 1..Len(s) |-> toLowerCase(s[i])]

IsLowerAlnum(c) == c \in LowerCase \cup Digits

\* author.toLowerCase().replace(/[^a-z0-9]/g, '')
StripNonAlnum(s) == SelectSeq(s, IsLowerAlnum)
NormalizeId(author) == StripNonAlnum(LowerStr(author))

\* Array.prototype.includes on an array of strings
Includes(arr, x) == \E i \in 1..Len(arr) : arr[i] = x

(***************************************************************************)
(* new RegExp(source, 'i') and RegExp.prototype.test, for sources made of  *)
(* ordinary characters, the metacharacter "." (any character) and the      *)
(* escapes \s (white space), \S (anything else) and an escaped punctuation *)
(* character (that character).  A source that ends in an unescaped         *)
(* backslash is not a pattern: new RegExp throws a SyntaxError.            *)
(***************************************************************************)
EscapeAtom(c) ==
    CASE c = "s" -> [kind |-> "space", ch |-> c]
      [] c = "S" -> [kind |-> "nonspace", ch |-> c]
      [] OTHER -> [kind |-> "lit", ch |-> c]

RECURSIVE RegExpAtoms(_)
RegExpAtoms(source) ==
    IF source = << >> THEN << >>
    ELSE IF Head(source) = "\\"
    THEN IF Len(source) = 1 THEN <<[kind |-> "invalid", ch |-> "\\"]>>
         ELSE <<EscapeAtom(source[2])>> \o RegExpAtoms(SubSeq(source, 3, Len(source)))
    ELSE IF Head(source) = "."
    THEN <<[kind |-> "any", ch |-> "."]>> \o RegExpAtoms(Tail(source))
    ELSE <<[kind |-> "lit", ch |-> Head(source)]>> \o RegExpAtoms(Tail(source))

\* new RegExp(source, 'i') does not throw
RegExpValid(source) ==
    \A i \in 1..Len(RegExpAtoms(source)) : RegExpAtoms(source)[i].kind # "invalid"

\* one pattern atom against one character, under the 'i' flag
AtomMatches(atom, c) ==
    \/ atom.kind = "any"
    \/ atom.kind = "lit" /\ toLowerCase(atom.ch) = toLowerCase(c)
    \/ atom.kind = "space" /\ c = " "
    \/ atom.kind = "nonspace" /\ c # " "

\* unanchored: the pattern may start at any offset of the text
RegExpTest(source, text) ==
    LET atoms == RegExpAtoms(source) IN
    \E start \in 0..(Len(text) - Len(atoms)) :
        \A j \in 1..Len(atoms) : AtomMatches(atoms[j], text[start + j])

(***************************************************************************)
(* Documents, as build-db.js writes them (processCouplet).  The three      *)
(* classification objects are modelled by their number field.             *)
(***************************************************************************)
Translation(text, explanation, author, year) ==
    [text |-> text, explanation |-> explanation, author |-> author, year |-> year]

Interpretation(text, author, year) ==
    [text |-> text, author |-> author, year |-> year]

Couplet(number, division, section, chapter, tamil, explanation, translations, interpretations, keywords) ==
    [number |-> number, division |-> division, section |-> section,
     chapter |-> chapter, tamil |-> tamil, tamil_explanation |-> explanation,
     translations |-> translations, tamil_interpretations |-> interpretations,
     keywords |-> keywords]

NoTranslations == [lang \in {} |-> << >>]

\* the year of a record whose translator has none (the field is absent)
NoYear == 0

\* The documents a store may hold: one per couplet number, with the search
\* pattern "ab" placed in a different field of each.
Catalogue == <<
    \* 5: "abc" in a line of the original text
    Couplet(5, 1, 1, 1, << <<"a", "b", "c">>, <<"x">> >>, <<"y">>,
        [lang \in {"en", "hi"} |->
            IF lang = "en"
            THEN << Translation(<<"x", "y">>, <<"z">>, <<"G", ".", " ", "U">>, 1886),
                    Translation(<<"z">>, << >>, <<"E">>, 1812) >>
            ELSE << Translation(<<"y">>, << >>, <<"S">>, 2000) >>],
        << Interpretation(<<"x">>, <<"P">>, 1300) >>,
        << <<"z">> >>),
    \* 1: "Ab" in an English translation text
    Couplet(1, 1, 1, 2, << <<"x">>, <<"y">> >>, <<"y">>,
        [lang \in {"en"} |->
            << Translation(<<"z", "A", "b">>, <<"y">>, <<"g", "u">>, 1900) >>],
        << >>,
        << <<"x">> >>),
    \* 3: "aB" in an English translation explanation; a space in a line
    Couplet(3, 1, 2, 3, << <<"y">>, <<"z", " ", "y">> >>, <<"x">>,
        [lang \in {"en", "hi"} |->
            IF lang = "en"
            THEN << Translation(<<"x">>, <<"a", "B">>, <<"G">>, 1886),
                    Translation(<<"y">>, <<"z">>, <<"G", "U">>, 1886) >>
            ELSE << Translation(<<"z">>, << >>, <<"E">>, 1950) >>],
        << Interpretation(<<"y">>, <<"p", ".">>, 1300),
           Interpretation(<<"z">>, <<"S">>, 1950) >>,
        << <<"y">> >>),
    \* 2: "AB" in an interpretation text; no translations
    Couplet(2, 2, 3, 4, << <<"z">>, <<"x">> >>, <<"z">>,
        NoTranslations,
        << Interpretation(<<"A", "B">>, <<"E">>, 1300) >>,
        << <<"z">> >>),
    \* 4: "ab" only in the gloss, a keyword, a Hindi text; "ac" in a line
    Couplet(4, 1, 1, 2, << <<"x">>, <<"a", "c">> >>, <<"a", "b">>,
        [lang \in {"en", "hi"} |->
            IF lang = "en"
            THEN << Translation(<<"b", "a">>, <<"a">>, <<"U">>, 1990) >>
            ELSE << Translation(<<"a", "b">>, <<"a", "b">>, <<"G", "U">>, 1886) >>],
        << Interpretation(<<"b">>, <<"P">>, 1300) >>,
        << <<"a", "b">> >>)
>>

\* Stores: up to MaxDocs catalogue documents, no couplet twice (the unique
\* index on number), in any order.
Injective(s) == \A i, j \in 1..Len(s) : i # j => s[i] # s[j]

IndexSeqs ==
    UNION {{s \in [1..n -> 1..Len(Catalogue)] : Injective(s)} : n \in 0..MaxDocs}

Stores == {[i \in 1..Len(ix) |-> Catalogue[ix[i]]] : ix \in IndexSeqs}

(***************************************************************************)
(* The document store (NeDB): dot-notation field lookup, query matching,   *)
(* find, count, findOne.                                                   *)
(***************************************************************************)
TextsOf(records) == {records[i].text : i \in 1..Len(records)}

\* the strings a dot-notation field name resolves to (an array field
\* resolves to its elements, a missing field to nothing)
FieldStrings(doc, field) ==
    CASE field = "tamil" -> {doc.tamil[i] : i \in 1..Len(doc.tamil)}
      [] field = "tamil_explanation" -> {doc.tamil_explanation}
      [] field = "translations.en.text" ->
            IF "en" \in DOMAIN doc.translations
            THEN TextsOf(doc.translations["en"]) ELSE {}
      [] field = "translations.en.explanation" ->
            IF "en" \in DOMAIN doc.translations
            THEN {doc.translations["en"][i].explanation :
                    i \in 1..Len(doc.translations["en"])}
            ELSE {}
      [] field = "tamil_interpretations.text" -> TextsOf(doc.tamil_interpretations)
      [] field = "keywords" -> {doc.keywords[i] : i \in 1..Len(doc.keywords)}
      [] OTHER -> {}

FieldNumber(doc, field) ==
    CASE field = "number" -> doc.number
      [] field = "chapter.number" -> doc.chapter
      [] field = "section.number" -> doc.section
      [] field = "division.number" -> doc.division

\* A query: the fields of its $or of regular expressions (none: no $or),
\* the source of those expressions, and its field equalities.
Query(orFields, source, eq) == [orFields |-> orFields, source |-> source, eq |-> eq]

NoEq == [f \in {} |-> 0]
EmptyQuery == Query({}, << >>, NoEq)

QueryMatches(doc, query) ==
    /\ \/ query.orFields = {}
       \/ \E f \in query.orFields :
            \E text \in FieldStrings(doc, f) : RegExpTest(query.source, text)
    /\ \A f \in DOMAIN query.eq : FieldNumber(doc, f) = query.eq[f]

StoreFind(store, query) == SelectSeq(store, LAMBDA doc : QueryMatches(doc, query))
StoreCount(store, query) == Len(StoreFind(store, query))

Op(name, query) == [op |-> name, query |-> query]

(***************************************************************************)
(* Requests.  A query parameter is absent, or an integer, or some other    *)
(* string; the translators parameter is the list of its comma-separated    *)
(* pieces; a path is the list of segments below the router's mount point.  *)
(***************************************************************************)
Absent == [given |-> FALSE, isInt |-> FALSE, val |-> 0]
Num(n) == [given |-> TRUE, isInt |-> TRUE, val |-> n]
NotANumber == [given |-> TRUE, isInt |-> FALSE, val |-> 0]

NoText == [given |-> FALSE, text |-> << >>]
Text(t) == [given |-> TRUE, text |-> t]

NoList == [given |-> FALSE, pieces |-> << >>]
List(pieces) == [given |-> TRUE, pieces |-> pieces]

SegNum(n) == [isInt |-> TRUE, num |-> n, word |-> ""]
SegWord(w) == [isInt |-> FALSE, num |-> 0, word |-> w]

\* the lang parameter of the translators route
NoLang == [given |-> FALSE, code |-> ""]
Lang(code) == [given |-> TRUE, code |-> code]

\* a request to the couplets router (mounted at /api/couplets)
Request(path, q, page, limit, chapter, section, division, translators, fault) ==
    [mount |-> "couplets", path |-> path, q |-> q, page |-> page, limit |-> limit,
     chapter |-> chapter, section |-> section, division |-> division,
     translators |-> translators, lang |-> NoLang, fault |-> fault]

(***************************************************************************)
(* Responses.                                                              *)
(***************************************************************************)
NoPagination ==
    [currentPage |-> 0, totalPages |-> 0, total |-> 0,
     hasNext |-> FALSE, hasPrev |-> FALSE]
NoFilters ==
    [division |-> 0, chapter |-> 0, section |-> 0, searchTerm |-> NoText,
     translators |-> << >>]
\* a body without a translators object
NoDirectory == [lang \in {} |-> << >>]

\* no response was sent
NoResponse ==
    [sent |-> FALSE, status |-> 0, handler |-> "none", success |-> FALSE,
     couplets |-> << >>, pagination |-> NoPagination, filters |-> NoFilters,
     translators |-> NoDirectory, error |-> "", details |-> << >>]

Json(status, handler, success, couplets, pagination, filters, error, details) ==
    [sent |-> TRUE, status |-> status, handler |-> handler, success |-> success,
     couplets |-> couplets, pagination |-> pagination, filters |-> filters,
     translators |-> NoDirectory, error |-> error, details |-> details]

\* what serving a request came to: the response, the store operations
\* executed, and whether the handler's promise was rejected with nobody
\* handling it
Outcome(response, operations, unhandled) ==
    [resp |-> response, ops |-> operations, unhandled |-> unhandled]

(***************************************************************************)
(* middleware/errorHandler.js                                              *)
(***************************************************************************)
notFound(r) ==
    Outcome(Json(404, "notFound", FALSE, << >>, NoPagination, NoFilters,
                 "Resource not found", << >>), << >>, FALSE)

\* the error a failing store operation passes to its callback
StoreError ==
    [name |-> "Error", message |-> "ENOENT: datafile", status |-> 0,
     hasArray |-> FALSE]

errorHandler(err, env) ==
    LET status0 == IF err.status # 0 THEN err.status ELSE 500
        message0 == IF err.message # "" THEN err.message ELSE "Internal server error"
        isDb == err.name \in {"MongoError", "NedbError"}
        isVal == err.name = "ValidationError"
        status == IF err.hasArray \/ isVal THEN 400
                  ELSE IF isDb THEN 500 ELSE status0
        message == IF err.hasArray THEN "Validation failed"
                   ELSE IF isVal THEN "Validation error"
                   ELSE IF isDb THEN "Database error" ELSE message0
    IN  Json(status, "errorHandler", FALSE, << >>, NoPagination, NoFilters, message,
             IF env = "development" THEN <<err.message>> ELSE << >>)

(***************************************************************************)
(* middleware/validators.js                                                *)
(***************************************************************************)
Detail(field, message) == [field |-> field, message |-> message]

\* isInt({min, max}) on an optional parameter
IntErrors(p, min, max, field, message) ==
    IF ~p.given \/ (p.isInt /\ p.val >= min /\ p.val <= max)
    THEN << >> ELSE <<Detail(field, message)>>

\* String.prototype.trim
RECURSIVE TrimStart(_)
TrimStart(s) == IF s # << >> /\ Head(s) = " " THEN TrimStart(Tail(s)) ELSE s
RECURSIVE TrimEnd(_)
TrimEnd(s) ==
    IF s # << >> /\ s[Len(s)] = " " THEN TrimEnd(SubSeq(s, 1, Len(s) - 1)) ELSE s
Trim(s) == TrimStart(TrimEnd(s))

handleValidationErrors(errors) ==
    Outcome(Json(400, "validation", FALSE, << >>, NoPagination, NoFilters,
                 "Validation failed", errors), << >>, FALSE)

\* the bound of the couplet number taken one too large
validateCoupletNumberLoose(r) ==
    LET seg == r.path[1] IN
    IF seg.isInt /\ seg.num >= 1 /\ seg.num <= MaxCoupletNumber + 1 THEN << >>
    ELSE <<Detail("number", "Couplet number must be between 1 and 1330")>>

\* param('number').isInt({ min: 1, max: 1330 })
validateCoupletNumber(r) ==
    LET seg == r.path[1] IN
    IF seg.isInt /\ seg.num >= 1 /\ seg.num <= MaxCoupletNumber THEN << >>
    ELSE <<Detail("number", "Couplet number must be between 1 and 1330")>>

validatePagination(r) ==
    (IF ~r.page.given \/ (r.page.isInt /\ r.page.val >= 1) THEN << >>
     ELSE <<Detail("page", "Page must be a positive integer")>>)
    \o IntErrors(r.limit, 1, MaxLimitAllowed, "limit",
                 "Limit must be between 1 and 100")

validateFilters(r) ==
    IntErrors(r.chapter, 1, MaxChapter, "chapter",
              "Chapter must be between 1 and 133")
    \o IntErrors(r.section, 1, MaxSection, "section",
                 "Section must be between 1 and 9")
    \o IntErrors(r.division, 1, MaxDivision, "division",
                 "Division must be between 1 and 3")

\* the customSanitizer: split by comma, trim, remove empty strings
SanitizeTranslators(pieces) ==
    SelectSeq([i \in 1..Len(pieces) |-> Trim(pieces[i])], LAMBDA t : t # << >>)

\* /^[a-z0-9_]+$/
ValidTranslatorId(t) ==
    /\ t # << >>
    /\ \A i \in 1..Len(t) : IsLowerAlnum(t[i]) \/ t[i] = "_"

validateTranslators(r) ==
    LET value == SanitizeTranslators(r.translators.pieces) IN
    IF ~r.translators.given THEN << >>
    ELSE IF value = << >>
    THEN <<Detail("translators", "Translators must be a comma-separated list")>>
    ELSE IF ~(\A i \in 1..Len(value) : ValidTranslatorId(value[i]))
    THEN <<Detail("translators",
             "Invalid translator ID format. Use lowercase alphanumeric characters only")>>
    ELSE << >>

validateSearch(r) ==
    LET value == Trim(r.q.text) IN
    IF ~r.q.given \/ (Len(value) >= MinSearchLen /\ Len(value) <= MaxSearchLen)
    THEN << >>
    ELSE <<Detail("q", "Search query must be between 2 and 100 characters")>>

\* What req.query holds once the validation chains have run.  A chain writes
\* each sanitizer's result back into req.query (Express 4: req.query is a
\* plain object), so translators is then an array, not a string, and q is
\* trimmed.
QueryValue(kind, pieces) == [kind |-> kind, pieces |-> pieces]

SanitizedTranslators(r) ==
    IF r.translators.given
    THEN QueryValue("array", SanitizeTranslators(r.translators.pieces))
    ELSE QueryValue("undefined", << >>)

SanitizedQ(r) == IF r.q.given THEN Text(Trim(r.q.text)) ELSE NoText

(***************************************************************************)
(* routes/couplets.js                                                      *)
(***************************************************************************)
\* parseInt(value) || fallback
ParseIntOr(p, fallback) ==
    IF p.given /\ p.isInt /\ p.val # 0 THEN p.val ELSE fallback

\* value ? parseInt(value) : null, with null written 0
ParseIntOrNull(p) == IF p.given /\ p.isInt THEN p.val ELSE 0

\* Math.ceil(a / b), b > 0
Ceil(a, b) == (a + b - 1) \div b

Min(a, b) == IF a < b THEN a ELSE b

\* a slice that takes its end index inclusively
SliceInclusive(arr, from, to) == SubSeq(arr, from + 1, Min(to + 1, Len(arr)))

\* a slice that starts one element early, when there is one
SliceFromBefore(arr, from, to) ==
    SubSeq(arr, IF from = 0 THEN 1 ELSE from, Min(to, Len(arr)))

\* Array.prototype.slice(from, to)
Slice(arr, from, to) == SubSeq(arr, from + 1, Min(to, Len(arr)))

\* Array.prototype.sort((a, b) => a.number - b.number), by insertion
RECURSIVE InsertByNumber(_, _)
InsertByNumber(doc, sorted) ==
    IF sorted = << >> THEN <<doc>>
    ELSE IF doc.number - Head(sorted).number < 0 THEN <<doc>> \o sorted
    ELSE <<Head(sorted)>> \o InsertByNumber(doc, Tail(sorted))

\* the store's order kept as it is
Unsorted(arr) == arr

RECURSIVE SortByNumber(_)
SortByNumber(arr) ==
    IF arr = << >> THEN << >>
    ELSE InsertByNumber(arr[Len(arr)], SortByNumber(SubSeq(arr, 1, Len(arr) - 1)))

\* a findOne that takes the first document of the store, whatever the query
findOneAsyncFirst(store, query) == IF store = << >> THEN << >> ELSE <<Head(store)>>

findAsync(store, query) == StoreFind(store, query)
countAsync(store, query) == StoreCount(store, query)
\* the first matching document, or << >> for null
findOneAsync(store, query) ==
    LET docs == StoreFind(store, query) IN
    IF docs = << >> THEN << >> ELSE <<Head(docs)>>

\* a store whose find hands out its own documents array, which the
\* handlers then sort in place
StoreAfterOpShared(store, op) ==
    IF op.op = "find" THEN SortByNumber(store) ELSE store

\* The store after one operation.  find, count and findOne only read it, and
\* the documents they hand out are copies: what a handler does to them
\* (sorting the array in place, projecting a document) stays with the copy.
StoreAfterOp(store, op) == store

\* the store after the operations of a request, in order
RECURSIVE StoreAfter(_, _)
StoreAfter(store, operations) ==
    IF operations = << >> THEN store
    ELSE StoreAfter(StoreAfterOp(store, Head(operations)), Tail(operations))

\* the records of a list whose author's normalized ID is in translatorIds
ByTranslators(records, translatorIds) ==
    SelectSeq(records, LAMBDA t : Includes(translatorIds, NormalizeId(t.author)))

\* a projection that keeps a language whose filtered list is empty
filterTranslationsKeepingEmpty(couplet, translatorIds) ==
    IF Len(translatorIds) = 0 THEN couplet
    ELSE [couplet EXCEPT
            !.translations =
                [lang \in DOMAIN couplet.translations |->
                    ByTranslators(couplet.translations[lang], translatorIds)],
            !.tamil_interpretations =
                ByTranslators(couplet.tamil_interpretations, translatorIds)]

filterTranslations(couplet, translatorIds) ==
    IF Len(translatorIds) = 0 THEN couplet
    ELSE LET kept == {lang \in DOMAIN couplet.translations :
                        Len(ByTranslators(couplet.translations[lang], translatorIds)) > 0}
         IN [couplet EXCEPT
                !.translations =
                    [lang \in kept |->
                        ByTranslators(couplet.translations[lang], translatorIds)],
                !.tamil_interpretations =
                    ByTranslators(couplet.tamil_interpretations, translatorIds)]

\* req.query.translators ? req.query.translators.split(',').map(t => t.trim()) : []
\* Only a string has a split method: on the array the validator left in
\* req.query the call throws a TypeError.
SplitTranslators(value) ==
    CASE value.kind = "undefined" -> [threw |-> FALSE, list |-> << >>]
      [] value.kind = "string" ->
            [threw |-> FALSE,
             list |-> [i \in 1..Len(value.pieces) |-> Trim(value.pieces[i])]]
      [] value.kind = "array" -> [threw |-> TRUE, list |-> << >>]

\* a TypeError thrown in an async handler before its try block: the promise
\* the handler returned is rejected; Express 4 does not look at that promise,
\* so next(err) is not called and no response is sent
Unhandled == Outcome(NoResponse, << >>, TRUE)

MapFilter(couplets, translators) ==
    IF Len(translators) > 0
    THEN [i \in 1..Len(couplets) |-> filterTranslations(couplets[i], translators)]
    ELSE couplets

\* the page count rounded down, and a next page promised at the exact end
PaginationRoundedDown(page, limit, skip, total) ==
    [currentPage |-> page, totalPages |-> total \div limit, total |-> total,
     hasNext |-> skip + limit <= total, hasPrev |-> page > 1]

\* a page count that is never less than one
PaginationAtLeastOnePage(page, limit, skip, total) ==
    [currentPage |-> page,
     totalPages |-> IF total = 0 THEN 1 ELSE Ceil(total, limit),
     total |-> total, hasNext |-> skip + limit < total, hasPrev |-> page > 1]

PaginationOf(page, limit, skip, total) ==
    [currentPage |-> page, totalPages |-> Ceil(total, limit), total |-> total,
     hasNext |-> skip + limit < total, hasPrev |-> page > 1]

\* the handler of router.get('/')
ListHandler(store, r, env) ==
    LET page == ParseIntOr(r.page, 1)
        limit == ParseIntOr(r.limit, DefaultLimit)
        skip == (page - 1) * limit
        split == SplitTranslators(SanitizedTranslators(r))
        translators == split.list
        found == findAsync(store, EmptyQuery)
        couplets == MapFilter(Slice(SortByNumber(found), skip, skip + limit),
                              translators)
        total == countAsync(store, EmptyQuery)
    IN  IF split.threw THEN Unhandled
        ELSE IF r.fault = "find"
        THEN Outcome(errorHandler(StoreError, env), <<Op("find", EmptyQuery)>>, FALSE)
        ELSE IF r.fault = "count"
        THEN Outcome(errorHandler(StoreError, env),
                     <<Op("find", EmptyQuery), Op("count", EmptyQuery)>>, FALSE)
        ELSE Outcome(Json(200, "list", TRUE, couplets,
                          PaginationOf(page, limit, skip, total), NoFilters, "", << >>),
                     <<Op("find", EmptyQuery), Op("count", EmptyQuery)>>, FALSE)

\* router.get('/', validatePagination, validateTranslators, handler)
GetCouplets(store, r, env) ==
    IF validatePagination(r) # << >>
    THEN handleValidationErrors(validatePagination(r))
    ELSE IF validateTranslators(r) # << >>
    THEN handleValidationErrors(validateTranslators(r))
    ELSE ListHandler(store, r, env)

\* the handler of router.get('/:number')
NumberHandler(store, r, env) ==
    LET coupletNumber == r.path[1].num
        split == SplitTranslators(SanitizedTranslators(r))
        translators == split.list
        query == Query({}, << >>, [f \in {"number"} |-> coupletNumber])
        couplet == findOneAsync(store, query)
    IN  IF split.threw THEN Unhandled
        ELSE IF r.fault = "findOne"
        THEN Outcome(errorHandler(StoreError, env), <<Op("findOne", query)>>, FALSE)
        ELSE IF couplet = << >>
        THEN Outcome(Json(404, "number", FALSE, << >>, NoPagination, NoFilters,
                          "Couplet not found", << >>),
                     <<Op("findOne", query)>>, FALSE)
        ELSE Outcome(Json(200, "number", TRUE, MapFilter(couplet, translators),
                          NoPagination, NoFilters, "", << >>),
                     <<Op("findOne", query)>>, FALSE)

\* router.get('/:number', validateCoupletNumber, validateTranslators, handler)
GetCoupletByNumber(store, r, env) ==
    IF validateCoupletNumber(r) # << >>
    THEN handleValidationErrors(validateCoupletNumber(r))
    ELSE IF validateTranslators(r) # << >>
    THEN handleValidationErrors(validateTranslators(r))
    ELSE NumberHandler(store, r, env)

\* the $or of the earlier search handler: the gloss and the keywords too
SearchFieldsEarlier ==
    {"tamil", "tamil_explanation", "translations.en.text",
     "translations.en.explanation", "tamil_interpretations.text", "keywords"}

\* the fields of the $or the search handler builds
SearchFields ==
    {"tamil", "translations.en.text", "translations.en.explanation",
     "tamil_interpretations.text"}

\* the equalities of the earlier search handler: the division is not applied
SearchEqualitiesEarlier(chapterNumber, sectionNumber, divisionNumber) ==
    LET given == {f \in {"chapter.number", "section.number"} :
                    \/ f = "chapter.number" /\ chapterNumber # 0
                    \/ f = "section.number" /\ sectionNumber # 0}
    IN [f \in given |->
            IF f = "chapter.number" THEN chapterNumber ELSE sectionNumber]

\* if (n) query[field] = n, for chapter, section and division
SearchEqualities(chapterNumber, sectionNumber, divisionNumber) ==
    LET given == {f \in {"chapter.number", "section.number", "division.number"} :
                    \/ f = "chapter.number" /\ chapterNumber # 0
                    \/ f = "section.number" /\ sectionNumber # 0
                    \/ f = "division.number" /\ divisionNumber # 0}
    IN [f \in given |->
            IF f = "chapter.number" THEN chapterNumber
            ELSE IF f = "section.number" THEN sectionNumber ELSE divisionNumber]

SearchQuery(searchTerm, chapterNumber, sectionNumber, divisionNumber) ==
    Query(IF searchTerm.given /\ searchTerm.text # << >> THEN SearchFields ELSE {},
          searchTerm.text,
          SearchEqualities(chapterNumber, sectionNumber, divisionNumber))

\* an error of new RegExp that went by the name the error handler answers
\* with 400
PatternErrorAsValidation ==
    [name |-> "ValidationError", message |-> "Invalid regular expression",
     status |-> 0, hasArray |-> FALSE]

\* the SyntaxError of new RegExp on a source that is not a pattern
PatternError ==
    [name |-> "SyntaxError", message |-> "Invalid regular expression",
     status |-> 0, hasArray |-> FALSE]

\* the handler of router.get('/search')
SearchHandler(store, r, env) ==
    LET q == SanitizedQ(r)
        searchTerm == IF q.given THEN Text(LowerStr(q.text)) ELSE NoText
        page == ParseIntOr(r.page, 1)
        limit == ParseIntOr(r.limit, DefaultLimit)
        skip == (page - 1) * limit
        split == SplitTranslators(SanitizedTranslators(r))
        translators == split.list
        chapterNumber == ParseIntOrNull(r.chapter)
        sectionNumber == ParseIntOrNull(r.section)
        divisionNumber == ParseIntOrNull(r.division)
        query == SearchQuery(searchTerm, chapterNumber, sectionNumber, divisionNumber)
        allCouplets == findAsync(store, query)
        total == countAsync(store, query)
        couplets == MapFilter(Slice(SortByNumber(allCouplets), skip, skip + limit),
                              translators)
        both == <<Op("find", query), Op("count", query)>>
    IN  IF split.threw THEN Unhandled
        ELSE IF searchTerm.given /\ searchTerm.text # << >>
                /\ ~RegExpValid(searchTerm.text)
        THEN Outcome(errorHandler(PatternError, env), << >>, FALSE)
        ELSE IF r.fault \in {"find", "count"}
        THEN Outcome(errorHandler(StoreError, env), both, FALSE)
        ELSE Outcome(Json(200, "search", TRUE, couplets,
                          PaginationOf(page, limit, skip, total),
                          [division |-> divisionNumber, chapter |-> chapterNumber,
                           section |-> sectionNumber, searchTerm |-> searchTerm,
                           translators |-> translators],
                          "", << >>),
                     both, FALSE)

\* router.get('/search', validateSearch, validatePagination, validateFilters,
\*            validateTranslators, handler)
SearchCouplets(store, r, env) ==
    IF validateSearch(r) # << >>
    THEN handleValidationErrors(validateSearch(r))
    ELSE IF validatePagination(r) # << >>
    THEN handleValidationErrors(validatePagination(r))
    ELSE IF validateFilters(r) # << >>
    THEN handleValidationErrors(validateFilters(r))
    ELSE IF validateTranslators(r) # << >>
    THEN handleValidationErrors(validateTranslators(r))
    ELSE SearchHandler(store, r, env)

(***************************************************************************)
(* The router: Express tries the routes in the order they were registered  *)
(* and runs the first whose path pattern matches; a route that answers     *)
(* ends the request.                                                       *)
(***************************************************************************)
CoupletRoutes == <<"/", "/:number", "/search">>

PathMatches(route, path) ==
    CASE route = "/" -> Len(path) = 0
      [] route = "/:number" -> Len(path) = 1
      [] route = "/search" -> Len(path) = 1 /\ path[1] = SegWord("search")

RunRoute(route, store, r, env) ==
    CASE route = "/" -> GetCouplets(store, r, env)
      [] route = "/:number" -> GetCoupletByNumber(store, r, env)
      [] route = "/search" -> SearchCouplets(store, r, env)

CoupletsRouter(store, r, env) ==
    LET matching == {i \in 1..Len(CoupletRoutes) : PathMatches(CoupletRoutes[i], r.path)}
    IN  IF matching = {} THEN notFound(r)
        ELSE RunRoute(CoupletRoutes[CHOOSE i \in matching : \A j \in matching : i <= j],
                      store, r, env)

(***************************************************************************)
(* routes/translators.js: the translator directory.  A Map keeps its       *)
(* entries in insertion order, so each language's map is a sequence.       *)
(***************************************************************************)
\* the keys of translatorsMap
Languages == {"en", "hi", "ta"}

Entry(id, name, year, language, type) ==
    [id |-> id, name |-> name, year |-> year, language |-> language, type |-> type]

\* Map.prototype.has
HasId(entries, id) == \E i \in 1..Len(entries) : entries[i].id = id

\* the scan so far: the three maps, and whether the scan threw
EmptyMaps == [threw |-> FALSE, lists |-> [l \in Languages |-> << >>]]

\* a scan that passes over the records of a language it has no map for
ScanRecordKnownLanguages(maps, language, record, type) ==
    IF maps.threw \/ record.author = << >> \/ language \notin Languages THEN maps
    ELSE LET id == NormalizeId(record.author) IN
         IF HasId(maps.lists[language], id) THEN maps
         ELSE [maps EXCEPT !.lists[language] =
                    Append(@, Entry(id, record.author, record.year, language, type))]

\* a scan in which a later record with the same ID replaces the entry
ScanRecordLastWins(maps, language, record, type) ==
    IF maps.threw \/ record.author = << >> THEN maps
    ELSE IF language \notin Languages THEN [maps EXCEPT !.threw = TRUE]
    ELSE LET id == NormalizeId(record.author)
             entry == Entry(id, record.author, record.year, language, type)
         IN  IF HasId(maps.lists[language], id)
             THEN [maps EXCEPT !.lists[language] =
                        [i \in 1..Len(@) |-> IF @[i].id = id THEN entry ELSE @[i]]]
             ELSE [maps EXCEPT !.lists[language] = Append(@, entry)]

\* One record of a list: skipped when it has no author; translatorsMap[language]
\* is undefined for a key that is not en, hi or ta, and .has on it throws a
\* TypeError; an ID the map already has is left as it is.
ScanRecord(maps, language, record, type) ==
    IF maps.threw \/ record.author = << >> THEN maps
    ELSE IF language \notin Languages THEN [maps EXCEPT !.threw = TRUE]
    ELSE LET id == NormalizeId(record.author) IN
         IF HasId(maps.lists[language], id) THEN maps
         ELSE [maps EXCEPT !.lists[language] =
                    Append(@, Entry(id, record.author, record.year, language, type))]

\* records.forEach
RECURSIVE ScanRecords(_, _, _, _)
ScanRecords(maps, language, records, type) ==
    IF records = << >> THEN maps
    ELSE ScanRecords(ScanRecord(maps, language, Head(records), type),
                     language, Tail(records), type)

\* Object.entries(couplet.translations).forEach: the languages fill separate
\* maps, so the order in which the keys are visited does not change the maps
RECURSIVE ScanLanguages(_, _, _)
ScanLanguages(maps, translations, keys) ==
    IF keys = {} THEN maps
    ELSE LET language == CHOOSE l \in keys : TRUE IN
         ScanLanguages(ScanRecords(maps, language, translations[language], "translation"),
                       translations, keys \ {language})

\* a scan that files the interpretations as translations
ScanCoupletAsTranslations(maps, couplet) ==
    ScanRecords(ScanLanguages(maps, couplet.translations, DOMAIN couplet.translations),
                "ta", couplet.tamil_interpretations, "translation")

\* one document: its translations, then its interpretations (always under ta)
ScanCouplet(maps, couplet) ==
    ScanRecords(ScanLanguages(maps, couplet.translations, DOMAIN couplet.translations),
                "ta", couplet.tamil_interpretations, "commentary")

\* couplets.forEach, in the order the store returned the documents
RECURSIVE ScanCouplets(_, _)
ScanCouplets(maps, couplets) ==
    IF couplets = << >> THEN maps
    ELSE ScanCouplets(ScanCouplet(maps, Head(couplets)), Tail(couplets))

\* (a, b) => a.year - b.year, as the sort reads it: with a year missing the
\* difference is NaN, which the sort takes for 0
CompareYears(a, b) ==
    IF a.year = NoYear \/ b.year = NoYear THEN 0 ELSE a.year - b.year

\* Array.prototype.sort as V8 runs it on an array of fewer than 64 elements:
\* the run the array starts with is found (and reversed when it descends),
\* then each later element is put in its place by binary search.

\* the last index of the run that starts at index 1, from index idx on
RECURSIVE RunEnd(_, _, _)
RunEnd(arr, descending, idx) ==
    IF idx > Len(arr) THEN Len(arr)
    ELSE LET order == CompareYears(arr[idx], arr[idx - 1]) IN
         IF (descending /\ order >= 0) \/ (~descending /\ order < 0) THEN idx - 1
         ELSE RunEnd(arr, descending, idx + 1)

Reverse(arr) == [i \in 1..Len(arr) |-> arr[Len(arr) + 1 - i]]

\* the number of elements before which the pivot goes, searched between
\* left and right (counted from 0, right exclusive)
RECURSIVE InsertionPoint(_, _, _, _)
InsertionPoint(arr, pivot, left, right) ==
    IF left >= right THEN left
    ELSE LET mid == left + ((right - left) \div 2) IN
         IF CompareYears(pivot, arr[mid + 1]) < 0
         THEN InsertionPoint(arr, pivot, left, mid)
         ELSE InsertionPoint(arr, pivot, mid + 1, right)

\* the elements from index start on, each inserted among those before it
RECURSIVE BinaryInsertionSort(_, _)
BinaryInsertionSort(arr, start) ==
    IF start > Len(arr) THEN arr
    ELSE LET pivot == arr[start]
             left == InsertionPoint(arr, pivot, 0, start - 1)
         IN  BinaryInsertionSort(
                SubSeq(arr, 1, left) \o <<pivot>> \o SubSeq(arr, left + 1, start - 1)
                    \o SubSeq(arr, start + 1, Len(arr)),
                start + 1)

SortByYear(entries) ==
    IF Len(entries) < 2 THEN entries
    ELSE LET descending == CompareYears(entries[2], entries[1]) < 0
             run == RunEnd(entries, descending, 3)
             made == IF descending
                     THEN Reverse(SubSeq(entries, 1, run))
                            \o SubSeq(entries, run + 1, Len(entries))
                     ELSE entries
         IN  BinaryInsertionSort(made, run + 1)

\* res.json({ success: true, translators })
JsonDirectory(directory) ==
    [Json(200, "translators", TRUE, << >>, NoPagination, NoFilters, "", << >>)
        EXCEPT !.translators = directory]

\* the TypeError of translatorsMap[language].has on an unknown language
ScanError ==
    [name |-> "TypeError", message |-> "Cannot read property 'has' of undefined",
     status |-> 0, hasArray |-> FALSE]

\* the handler of router.get('/') of the translators router
TranslatorsHandler(store, r, env) ==
    LET lang == r.lang
        couplets == findAsync(store, EmptyQuery)
        maps == ScanCouplets(EmptyMaps, couplets)
        result == [l \in Languages |-> SortByYear(maps.lists[l])]
        find == <<Op("find", EmptyQuery)>>
    IN  IF r.fault = "find"
        THEN Outcome(errorHandler(StoreError, env), find, FALSE)
        ELSE IF Len(couplets) = 0
        THEN Outcome(JsonDirectory([l \in Languages |-> << >>]), find, FALSE)
        ELSE IF maps.threw
        THEN Outcome(errorHandler(ScanError, env), find, FALSE)
        ELSE IF lang.given /\ lang.code # "" /\ lang.code \in Languages
        THEN Outcome(JsonDirectory([l \in {lang.code} |-> result[l]]), find, FALSE)
        ELSE Outcome(JsonDirectory(result), find, FALSE)

\* a language validator that lets every value through
validateLanguageAny(r) == << >>

\* query('lang').optional().isIn(['en', 'hi', 'ta'])
validateLanguage(r) ==
    IF ~r.lang.given \/ r.lang.code \in {"en", "hi", "ta"} THEN << >>
    ELSE <<Detail("lang", "Language must be one of: en, hi, ta")>>

\* router.get('/', validateLanguage, handler)
GetTranslators(store, r, env) ==
    IF validateLanguage(r) # << >>
    THEN handleValidationErrors(validateLanguage(r))
    ELSE TranslatorsHandler(store, r, env)

\* the translators router has the one route '/'
TranslatorsRouter(store, r, env) ==
    IF r.path = << >> THEN GetTranslators(store, r, env) ELSE notFound(r)

(***************************************************************************)
(* server.js: the two routers at their mount points, then notFound.        *)
(***************************************************************************)
App(store, r, env) ==
    CASE r.mount = "couplets" -> CoupletsRouter(store, r, env)
      [] r.mount = "translators" -> TranslatorsRouter(store, r, env)
      [] OTHER -> notFound(r)

(***************************************************************************)
(* The requests served.                                                    *)
(***************************************************************************)
Pages == {Absent, NotANumber} \cup {Num(p) : p \in 0..MaxPage}
Limits ==
    {Absent, Num(MaxLimitAllowed), Num(MaxLimitAllowed + 1)}
    \cup {Num(l) : l \in 0..MaxLimit}

TranslatorParams ==
    {NoList,
     List(<< <<"g", "u">> >>),
     List(<< <<"g">>, <<" ", "e">> >>),
     List(<< <<"G", "U">> >>),
     List(<< << >> >>)}

TermChars == {"a", "B", ".", " "}
Terms == UNION {[1..n -> TermChars] : n \in 1..MaxTermLen}

\* terms with an escape: \S, \s and an escaped "."
EscapeTerms == {<<"\\", "S">>, <<"\\", "s">>, <<"\\", ".">>}

\* terms that new RegExp rejects: the pattern ends in the middle of an escape
InvalidTerms == {<<"a", "\\">>, <<"\\", "a", "\\">>}

\* a term one character longer than validateSearch allows
LongTerm == [i \in 1..(MaxSearchLen + 1) |-> "a"]

FilterParams == {Absent, Num(1), Num(2)}

\* filter values at and beyond the ends of a range 1..max
EdgeFilterParams(max) == {NotANumber, Num(0), Num(max), Num(max + 1)}

ListRequest(page, limit, translators, fault) ==
    Request(<< >>, NoText, page, limit, Absent, Absent, Absent, translators, fault)

ListRequests ==
    {ListRequest(p, l, NoList, "none") : p \in Pages, l \in Limits}
    \cup {ListRequest(p, l, t, "none") :
            p \in {Absent, Num(2)}, l \in {Absent, Num(1)}, t \in TranslatorParams}
    \cup {ListRequest(Absent, Absent, NoList, f) : f \in {"find", "count"}}

Segments ==
    {SegNum(n) : n \in (0..(Len(Catalogue) + 1))
                        \cup {MaxCoupletNumber, MaxCoupletNumber + 1}}
    \cup {SegWord("chapters")}

PathRequest(seg, translators, fault) ==
    Request(<<seg>>, NoText, Absent, Absent, Absent, Absent, Absent, translators,
            fault)

NumberRequests ==
    {PathRequest(seg, t, "none") : seg \in Segments, t \in TranslatorParams}
    \cup {PathRequest(seg, NoList, "findOne") : seg \in Segments}

SearchRequest(q, page, limit, chapter, section, division, translators, fault) ==
    Request(<<SegWord("search")>>, q, page, limit, chapter, section, division,
            translators, fault)

SearchRequests ==
    {SearchRequest(NoText, p, l, Absent, Absent, Absent, NoList, "none") :
        p \in Pages, l \in Limits}
    \cup {SearchRequest(NoText, Absent, Absent, c, s, d, NoList, "none") :
            c \in FilterParams, s \in FilterParams, d \in FilterParams}
    \cup {SearchRequest(Text(t), Absent, Absent, Absent, Absent, d, NoList, "none") :
            t \in Terms, d \in {Absent, Num(1)}}
    \cup {SearchRequest(q, p, l, Absent, Absent, d, tr, "none") :
            q \in {NoText, Text(<<"a", "B">>)}, p \in {Num(1), Num(2)},
            l \in {Num(1), Num(2)}, d \in {Absent, Num(1)},
            tr \in {NoList, List(<< <<"g", "u">> >>)}}
    \cup {SearchRequest(NoText, Absent, Absent, Absent, Absent, Absent, NoList, f) :
            f \in {"find", "count"}}
    \cup {SearchRequest(Text(LongTerm), Absent, Absent, Absent, Absent, Absent,
                         NoList, "none")}
    \cup {SearchRequest(Text(t), Absent, Absent, Absent, Absent, Absent, NoList,
                         "none") : t \in EscapeTerms}
    \cup {SearchRequest(Text(t), p, Absent, Absent, Absent, Absent, NoList, f) :
            t \in InvalidTerms, p \in {Absent, Num(2)}, f \in {"none", "find"}}
    \cup {SearchRequest(NoText, Absent, Absent, c, Absent, Absent, NoList, "none") :
            c \in EdgeFilterParams(MaxChapter)}
    \cup {SearchRequest(NoText, Absent, Absent, Absent, s, Absent, NoList, "none") :
            s \in EdgeFilterParams(MaxSection) \cup EdgeFilterParams(MaxChapter)}
    \cup {SearchRequest(NoText, Absent, Absent, Absent, Absent, d, NoList, "none") :
            d \in EdgeFilterParams(MaxDivision)}

LangParams == {NoLang, Lang("en"), Lang("hi"), Lang("ta"), Lang("fr"), Lang("")}

\* a request to the translators router (mounted at /api/translators)
TranslatorsRequest(lang, fault) ==
    [Request(<< >>, NoText, Absent, Absent, Absent, Absent, Absent, NoList, fault)
        EXCEPT !.mount = "translators", !.lang = lang]

TranslatorsRequests ==
    {TranslatorsRequest(lang, "none") : lang \in LangParams}
    \cup {TranslatorsRequest(NoLang, "find")}

\* the same URLs, as the application receives them
HttpRequests ==
    ListRequests \cup NumberRequests \cup SearchRequests \cup TranslatorsRequests
    \cup {PathRequest(SegWord("search"), t, "none") : t \in TranslatorParams}
    \cup {Request(<<SegNum(1), SegWord("x")>>, NoText, Absent, Absent, Absent,
                  Absent, Absent, NoList, "none")}
    \cup {[TranslatorsRequest(NoLang, "none") EXCEPT !.mount = "chapters"]}

(***************************************************************************)
(* The state machine.                                                      *)
(***************************************************************************)
NodeEnvs == {"production", "development"}

NoRequest == ListRequest(Absent, Absent, NoList, "none")
NoInput == [couplet |-> << >>, translatorIds |-> << >>]
NoOutput == << >>

Init ==
    /\ db \in Stores
    /\ nodeEnv \in NodeEnvs
    /\ req = NoRequest
    /\ resp = NoResponse
    /\ ops = << >>
    /\ phase = "idle"
    /\ alive = TRUE
    /\ fin = NoInput
    /\ fout = NoOutput

\* One request is served: the outcome of its route becomes the state.  An
\* unhandled rejection ends the process or not, as the runtime decides
\* (Node 15 and later end it, Node 14 logs a warning).
Serve(r, outcome) ==
    /\ phase = "idle"
    /\ alive
    /\ req' = r
    /\ resp' = outcome.resp
    /\ ops' = outcome.ops
    /\ phase' = "done"
    /\ alive' \in (IF outcome.unhandled THEN BOOLEAN ELSE {TRUE})
    /\ db' = StoreAfter(db, outcome.ops)
    /\ UNCHANGED <<nodeEnv, fin, fout>>

\* The request is over: the connection closes and the process waits for
\* the next one.
Finish ==
    /\ phase = "done"
    /\ alive
    /\ req' = NoRequest
    /\ resp' = NoResponse
    /\ ops' = << >>
    /\ phase' = "idle"
    /\ UNCHANGED <<db, nodeEnv, alive, fin, fout>>

\* GET requests arriving at the application, dispatched by the router
HttpGet == \E r \in HttpRequests : Serve(r, App(db, r, nodeEnv))

Next == HttpGet \/ Finish

Spec == Init /\ [][Next]_vars

\* The three routes, each run on the requests written for it
RouteList == \E r \in ListRequests : Serve(r, GetCouplets(db, r, nodeEnv))
RouteNumber == \E r \in NumberRequests : Serve(r, GetCoupletByNumber(db, r, nodeEnv))
RouteSearch == \E r \in SearchRequests : Serve(r, SearchCouplets(db, r, nodeEnv))
RouteTranslators ==
    \E r \in TranslatorsRequests : Serve(r, GetTranslators(db, r, nodeEnv))

NextRoutes == RouteList \/ RouteNumber \/ RouteSearch \/ RouteTranslators \/ Finish

SpecRoutes == Init /\ [][NextRoutes]_vars

(***************************************************************************)
(* The translator directory on corpora that also hold records without an   *)
(* author or without a year, and a translation in a fourth language.       *)
(***************************************************************************)
DirectoryCatalogue ==
    Catalogue \o <<
    \* 6: an English record and an interpretation without an author, and
    \* "e." after them
    Couplet(6, 3, 3, 5, << <<"x">>, <<"y">> >>, <<"z">>,
        [lang \in {"en"} |->
            << Translation(<<"x">>, << >>, << >>, 1950),
               Translation(<<"y">>, << >>, <<"e", ".">>, 1999) >>],
        << Interpretation(<<"z">>, << >>, 1400),
           Interpretation(<<"x">>, <<"S">>, 1950) >>,
        << <<"y">> >>),
    \* 7: an English record and an interpretation whose translators have no
    \* year
    Couplet(7, 3, 3, 5, << <<"y">>, <<"x">> >>, <<"z">>,
        [lang \in {"en"} |->
            << Translation(<<"x">>, << >>, <<"C">>, NoYear) >>],
        << Interpretation(<<"y">>, <<"x">>, NoYear) >>,
        << <<"x">> >>),
    \* 8: a French translation beside an English one
    Couplet(8, 3, 3, 5, << <<"z">>, <<"y">> >>, <<"x">>,
        [lang \in {"en", "fr"} |->
            IF lang = "en"
            THEN << Translation(<<"z">>, << >>, <<"E">>, 1812) >>
            ELSE << Translation(<<"y">>, << >>, <<"B">>, 1900) >>],
        << >>,
        << <<"z">> >>),
    \* 9: a German translation whose one record has no author
    Couplet(9, 3, 3, 5, << <<"x">>, <<"z">> >>, <<"y">>,
        [lang \in {"de"} |->
            << Translation(<<"x">>, << >>, << >>, 1920) >>],
        << >>,
        << <<"y">> >>)
    >>

CorpusIndexSeqs ==
    UNION {{s \in [1..n -> 1..Len(DirectoryCatalogue)] : Injective(s)} : n \in 0..MaxDocs}

Corpora == {[i \in 1..Len(ix) |-> DirectoryCatalogue[ix[i]]] : ix \in CorpusIndexSeqs}

InitDirectory ==
    /\ db \in Corpora
    /\ nodeEnv \in NodeEnvs
    /\ req = NoRequest
    /\ resp = NoResponse
    /\ ops = << >>
    /\ phase = "idle"
    /\ alive = TRUE
    /\ fin = NoInput
    /\ fout = NoOutput

NextDirectory == RouteTranslators \/ Finish

SpecDirectory == InitDirectory /\ [][NextDirectory]_vars

(***************************************************************************)
(* filterTranslations on its own: a document and an allow-list are drawn,  *)
(* and the function is applied to them.                                    *)
(***************************************************************************)
TranslatorIds == {<<"g", "u">>, <<"g">>, <<"e">>, <<"p">>, <<"s">>}

FilterInputs ==
    {[couplet |-> Catalogue[i], translatorIds |-> ids] :
        i \in 1..Len(Catalogue),
        ids \in UNION {[1..n -> TranslatorIds] : n \in 0..MaxIds}}

InitFilter ==
    /\ db = << >>
    /\ nodeEnv = "production"
    /\ req = NoRequest
    /\ resp = NoResponse
    /\ ops = << >>
    /\ phase = "idle"
    /\ alive = TRUE
    /\ fin \in FilterInputs
    /\ fout = NoOutput

ApplyFilter ==
    /\ phase = "idle"
    /\ fout' = filterTranslations(fin.couplet, fin.translatorIds)
    /\ phase' = "done"
    /\ UNCHANGED <<db, req, resp, ops, alive, nodeEnv, fin>>

SpecFilter == InitFilter /\ [][ApplyFilter]_vars

(***************************************************************************)
(* What the claims speak of, stated on the request and the store alone.    *)
(***************************************************************************)
Done == phase = "done"
IsListRequest == req.mount = "couplets" /\ req.path = << >>
IsSearchRequest == req.path = <<SegWord("search")>>

\* the page and limit the client asked for, with the documented defaults
AskedPage == IF req.page.given THEN req.page.val ELSE 1
AskedLimit == IF req.limit.given THEN req.limit.val ELSE DefaultLimit
AskedSkip == (AskedPage - 1) * AskedLimit

ValidPaging ==
    /\ req.page.given => req.page.isInt /\ req.page.val >= 1
    /\ req.limit.given =>
        req.limit.isInt /\ req.limit.val >= 1 /\ req.limit.val <= MaxLimitAllowed

FilterHolds(p, n) == p.given => n = p.val

FiltersHold(doc) ==
    /\ FilterHolds(req.division, doc.division)
    /\ FilterHolds(req.section, doc.section)
    /\ FilterHolds(req.chapter, doc.chapter)

\* the search term as validated (trimmed)
AskedTerm == Trim(req.q.text)

\* the four kinds of text a search term is looked for in
SearchedTexts(doc) ==
    {doc.tamil[i] : i \in 1..Len(doc.tamil)}
    \cup (IF "en" \in DOMAIN doc.translations
          THEN {doc.translations["en"][i].text :
                    i \in 1..Len(doc.translations["en"])}
               \cup {doc.translations["en"][i].explanation :
                    i \in 1..Len(doc.translations["en"])}
          ELSE {})
    \cup {doc.tamil_interpretations[i].text :
            i \in 1..Len(doc.tamil_interpretations)}

\* the term occurs in the text, ignoring letter case
OccursIgnoringCase(term, text) ==
    \E start \in 0..(Len(text) - Len(term)) :
        \A j \in 1..Len(term) : toLowerCase(term[j]) = toLowerCase(text[start + j])

\* the term has none of the characters a pattern reads specially
IsLiteralTerm(term) == \A j \in 1..Len(term) : term[j] \notin {".", "\\"}

\* the term, read as a pattern in which "." stands for any character,
\* occurs in the text, ignoring letter case
DotPatternOccurs(term, text) ==
    \E start \in 0..(Len(text) - Len(term)) :
        \A j \in 1..Len(term) :
            term[j] = "." \/ toLowerCase(term[j]) = toLowerCase(text[start + j])

\* the lower-cased term, read as a pattern, matches in the text; for a term
\* without escapes this is the term with "." for any character
PatternOccurs(term, text) ==
    IF \A j \in 1..Len(term) : term[j] # "\\"
    THEN DotPatternOccurs(term, text)
    ELSE RegExpTest(LowerStr(term), text)

TermHolds(doc) ==
    req.q.given => \E text \in SearchedTexts(doc) : PatternOccurs(AskedTerm, text)

\* the couplet numbers of the documents the request's query matches
MatchingNumbers ==
    IF IsListRequest THEN {db[i].number : i \in 1..Len(db)}
    ELSE {db[i].number : i \in {k \in 1..Len(db) : FiltersHold(db[k]) /\ TermHolds(db[k])}}

NumbersOf(couplets) == [i \in 1..Len(couplets) |-> couplets[i].number]

\* a success response of the list or of the search handler
PageServed == Done /\ resp.sent /\ resp.success /\ resp.handler \in {"list", "search"}

ValidTerm ==
    req.q.given => Len(AskedTerm) >= MinSearchLen /\ Len(AskedTerm) <= MaxSearchLen

ValidFilter(p, max) == p.given => p.isInt /\ p.val >= 1 /\ p.val <= max

ValidFilters ==
    /\ ValidFilter(req.chapter, MaxChapter)
    /\ ValidFilter(req.section, MaxSection)
    /\ ValidFilter(req.division, MaxDivision)

\* the term, when given, is a pattern that new RegExp accepts
ValidPattern == req.q.given => RegExpValid(AskedTerm)

\* a list or search request whose parameters are all valid, without a
\* translators list, served while the store works
PlainValidPageRequest ==
    /\ Done
    /\ IsListRequest \/ IsSearchRequest
    /\ ValidTerm /\ ValidPattern /\ ValidPaging /\ ValidFilters
    /\ ~req.translators.given
    /\ req.fault = "none"

(***************************************************************************)
(* C1.  A GET of /couplets/search with valid parameters is served by the   *)
(* search handler and ends in a success response; it is never answered by  *)
(* the /couplets/{number} route.  (Spec: requests go through the router.)  *)
(***************************************************************************)
C1_SearchServedBySearchHandler ==
    (PlainValidPageRequest /\ IsSearchRequest)
        => /\ resp.sent
           /\ resp.status = 200
           /\ resp.success
           /\ resp.handler = "search"

(***************************************************************************)
(* C2.  For valid page and limit, with skip = (page-1)*limit and total the *)
(* number of matching documents, the list and search handlers answer with  *)
(* success and a sequence of min(limit, total - skip) documents when       *)
(* skip < total, of none otherwise: a page past the end is an empty        *)
(* success, not an error.  (SpecRoutes)                                    *)
(***************************************************************************)
ExpectedLength ==
    LET total == Cardinality(MatchingNumbers) IN
    IF AskedSkip < total THEN Min(AskedLimit, total - AskedSkip) ELSE 0

\* C2: a valid list or search request succeeds with min(limit, total - skip)
\* documents, none when skip >= total
C2_PageLength ==
    PlainValidPageRequest
        => /\ PageServed
           /\ Len(resp.couplets) = ExpectedLength
           /\ Len(resp.couplets) <= AskedLimit

\* a search answered with an empty page past the end of a non-empty result
C2_Witness ==
    /\ PlainValidPageRequest /\ PageServed /\ resp.handler = "search"
    /\ Cardinality(MatchingNumbers) > 0
    /\ AskedSkip >= Cardinality(MatchingNumbers)
    /\ resp.couplets = << >>

(***************************************************************************)
(* C3.  Whatever the store's order, the sequence the list and search       *)
(* handlers return is strictly ascending by couplet number and is the      *)
(* slice [skip, skip+limit) of the matching set sorted by number.          *)
(* (SpecRoutes)                                                            *)
(***************************************************************************)
\* how many matching numbers are smaller than n
RankOf(n) == Cardinality({m \in MatchingNumbers : m < n})

\* C3: the returned numbers ascend strictly and the i-th is the matching
\* number of rank skip + i - 1
C3_SortedSlice ==
    PageServed
        => LET numbers == NumbersOf(resp.couplets) IN
           /\ \A i, j \in 1..Len(numbers) : i < j => numbers[i] < numbers[j]
           /\ \A i \in 1..Len(numbers) :
                /\ numbers[i] \in MatchingNumbers
                /\ RankOf(numbers[i]) = AskedSkip + i - 1

\* the store returns 5, 1, 3; page 1 of limit 2 is 1, 3 and has a next page
C3_Witness ==
    /\ PageServed
    /\ NumbersOf(db) = <<5, 1, 3>>
    /\ AskedPage = 1 /\ AskedLimit = 2
    /\ NumbersOf(resp.couplets) = <<1, 3>>
    /\ resp.pagination.hasNext

(***************************************************************************)
(* C4.  In every success response of the list and search handlers:         *)
(* currentPage = page, hasNext = (skip + limit < total), hasPrev =         *)
(* (page > 1), totalPages = ceil(total / limit), 0 when total = 0, where   *)
(* total is the number of documents matching the query.  (SpecRoutes)      *)
(***************************************************************************)
\* k = ceil(total / limit): the least k with k * limit >= total
IsCeiling(k, total, limit) ==
    /\ k >= 0
    /\ k * limit >= total
    /\ k > 0 => (k - 1) * limit < total

\* C4: the pagination block of a success response follows from page, limit
\* and the number of matching documents
C4_Pagination ==
    PageServed
        => LET total == Cardinality(MatchingNumbers) IN
           /\ resp.pagination.total = total
           /\ resp.pagination.currentPage = AskedPage
           /\ resp.pagination.hasNext = (AskedSkip + AskedLimit < total)
           /\ resp.pagination.hasPrev = (AskedPage > 1)
           /\ IsCeiling(resp.pagination.totalPages, total, AskedLimit)
           /\ total = 0 => resp.pagination.totalPages = 0

\* a middle page of a search: a previous and a next page, three pages in all
C4_Witness ==
    /\ PageServed /\ resp.handler = "search"
    /\ AskedPage = 2 /\ AskedLimit = 1
    /\ resp.pagination.hasNext /\ resp.pagination.hasPrev
    /\ resp.pagination.totalPages = 3

(***************************************************************************)
(* C5.  Translator filtering is content-only: for the same query, page and *)
(* limit, a request with a translator allow-list is answered with the same *)
(* total, totalPages, hasNext, hasPrev and the same sequence of couplet    *)
(* numbers as the request without it.  (SpecRoutes)                        *)
(***************************************************************************)
WithoutTranslators ==
    LET plain == [req EXCEPT !.translators = NoList] IN
    IF IsListRequest THEN GetCouplets(db, plain, nodeEnv).resp
    ELSE SearchCouplets(db, plain, nodeEnv).resp

\* C5: a validated request with an allow-list is answered with the
\* pagination and couplet numbers of the same request without it
C5_TranslatorsContentOnly ==
    (/\ Done
     /\ IsListRequest \/ IsSearchRequest
     /\ ValidTerm /\ ValidPaging /\ ValidFilters
     /\ req.translators.given /\ validateTranslators(req) = << >>
     /\ req.fault = "none")
        => /\ resp.sent
           /\ resp.success
           /\ resp.pagination = WithoutTranslators.pagination
           /\ NumbersOf(resp.couplets) = NumbersOf(WithoutTranslators.couplets)

(***************************************************************************)
(* C6.  With a non-empty allow-list, the projection of a document has a    *)
(* translations map holding exactly the languages with at least one record *)
(* whose author's normalized ID (lower-cased, non-alphanumerics stripped)  *)
(* is in the allow-list, each list holding exactly those records in their  *)
(* original order, and tamil_interpretations holding exactly the           *)
(* interpretation records whose normalized author ID is in the allow-list. *)
(* Membership is equality of whole IDs: the allow-list g, e removes a      *)
(* record whose author normalizes to gu.  (SpecFilter)                     *)
(***************************************************************************)
\* the normalized ID, character by character
RECURSIVE IdOf(_)
IdOf(author) ==
    IF author = << >> THEN << >>
    ELSE LET c == toLowerCase(Head(author)) IN
         IF c \in LowerCase \cup Digits THEN <<c>> \o IdOf(Tail(author))
         ELSE IdOf(Tail(author))

Allowed(record) == \E i \in 1..Len(fin.translatorIds) : fin.translatorIds[i] = IdOf(record.author)

\* kept is the allowed records of records, in their order
KeptInOrder(records, kept) ==
    LET idx == {i \in 1..Len(records) : Allowed(records[i])} IN
    /\ Len(kept) = Cardinality(idx)
    /\ \A i \in idx : kept[Cardinality({j \in idx : j <= i})] = records[i]

\* C6: the projection keeps exactly the allowed records, in order, and
\* exactly the languages that have one
C6_Projection ==
    (phase = "done" /\ Len(fin.translatorIds) > 0)
        => LET doc == fin.couplet IN
           /\ DOMAIN fout.translations =
                {lang \in DOMAIN doc.translations :
                    \E i \in 1..Len(doc.translations[lang]) :
                        Allowed(doc.translations[lang][i])}
           /\ \A lang \in DOMAIN fout.translations :
                KeptInOrder(doc.translations[lang], fout.translations[lang])
           /\ KeptInOrder(doc.tamil_interpretations, fout.tamil_interpretations)
           /\ fout.number = doc.number

\* couplet 5 projected on g, e: of its English records only E's is left
\* ("G. U" is gu, not g), and its Hindi entry is gone
C6_Witness ==
    /\ phase = "done"
    /\ fin.couplet.number = 5
    /\ fin.translatorIds = << <<"g">>, <<"e">> >>
    /\ DOMAIN fout.translations = {"en"}
    /\ Len(fout.translations["en"]) = 1
    /\ fout.translations["en"][1].author = <<"E">>
    /\ fout.tamil_interpretations = << >>

(***************************************************************************)
(* C7.  Every request that passes validation, one that carries a           *)
(* translators list included, ends in exactly one response, a success      *)
(* payload or an error envelope with success:false; none is left without   *)
(* a response.  (Spec)                                                     *)
(***************************************************************************)
PassesValidation ==
    \/ /\ IsListRequest
       /\ validatePagination(req) = << >>
       /\ validateTranslators(req) = << >>
    \/ /\ Len(req.path) = 1
       /\ validateCoupletNumber(req) = << >>
       /\ validateTranslators(req) = << >>

\* C7: a request that passed validation has been sent a response, a
\* success or an error envelope
C7_ExactlyOneResponse ==
    (Done /\ PassesValidation)
        => /\ resp.sent
           /\ resp.success \/ resp.status >= 400

(***************************************************************************)
(* C8.  When a search term is given, the search handler's predicate        *)
(* matches a document if and only if the term occurs, ignoring letter      *)
(* case, in a line of the original text, the text or the explanation of an *)
(* English translation, or the text of an interpretation; a term found     *)
(* only in other fields does not match; with no term every document        *)
(* passes.  (SpecRoutes)                                                   *)
(***************************************************************************)
\* the response shows the whole result: the first page, and it is not full
WholeResult == AskedSkip = 0 /\ AskedLimit >= Len(db)

Returned(doc) == \E i \in 1..Len(resp.couplets) : resp.couplets[i].number = doc.number

SearchServed == PageServed /\ resp.handler = "search"

\* C8 as claimed: a document is matched exactly when the term itself occurs,
\* ignoring case, in one of the four kinds of text
C8_TermOccurs ==
    (SearchServed /\ WholeResult)
        => \A i \in 1..Len(db) :
            FiltersHold(db[i])
                => (Returned(db[i]) <=>
                        (req.q.given =>
                            \E text \in SearchedTexts(db[i]) :
                                OccursIgnoringCase(AskedTerm, text)))

\* C8 as amended: a document is matched exactly when the lower-cased term,
\* read as a pattern in which "." stands for any character, matches
\* ignoring case in one of the four kinds of text; a term without pattern
\* characters must itself occur
C8_TermPatternOccurs ==
    (SearchServed /\ WholeResult)
        => \A i \in 1..Len(db) :
            FiltersHold(db[i])
                => (Returned(db[i]) <=>
                        (req.q.given =>
                            \E text \in SearchedTexts(db[i]) :
                                /\ PatternOccurs(AskedTerm, text)
                                /\ IsLiteralTerm(AskedTerm)
                                        => OccursIgnoringCase(AskedTerm, text)))

\* the term aB finds couplet 1 by the "Ab" of its English text and does
\* not find couplet 4, which has "ab" in its gloss, keywords and Hindi text
C8_Witness ==
    /\ SearchServed /\ WholeResult
    /\ req.q = Text(<<"a", "B">>)
    /\ \E i, j \in 1..Len(db) :
        /\ db[i].number = 1 /\ Returned(db[i])
        /\ db[j].number = 4 /\ FiltersHold(db[j]) /\ ~Returned(db[j])

(***************************************************************************)
(* C9.  For every combination of supplied division, section and chapter    *)
(* filters, the search result and its total hold exactly the documents     *)
(* whose division, section and chapter numbers equal each supplied value;  *)
(* a filter not supplied constrains nothing, and every supplied filter,    *)
(* division included, is applied.  (SpecRoutes)                            *)
(***************************************************************************)
\* C9: total and result of a search hold exactly the documents equal on
\* every supplied filter
C9_FiltersConjunction ==
    SearchServed
        => /\ resp.pagination.total =
                Cardinality({i \in 1..Len(db) : TermHolds(db[i]) /\ FiltersHold(db[i])})
           /\ \A i \in 1..Len(db) : Returned(db[i]) => FiltersHold(db[i])
           /\ WholeResult =>
                \A i \in 1..Len(db) :
                    TermHolds(db[i]) => (Returned(db[i]) <=> FiltersHold(db[i]))

\* the three filters together: a document of the store passes, another fails
C9_Witness ==
    /\ SearchServed /\ WholeResult
    /\ req.division.given /\ req.section.given /\ req.chapter.given
    /\ resp.pagination.total > 0
    /\ resp.pagination.total < Len(db)
    /\ \E i \in 1..Len(db) : db[i].division # req.division.val /\ ~Returned(db[i])

(***************************************************************************)
(* C10.  A request for couplet number 1331 is answered with status 404     *)
(* and the body {success:false, error:'Couplet not found'}.  (Spec)        *)
(***************************************************************************)
AsksNumber(n) == Done /\ req.path = <<SegNum(n)>>

\* C10 as claimed: couplet number 1331 is answered 404, Couplet not found
C10_NotFound ==
    AsksNumber(MaxCoupletNumber + 1)
        => /\ resp.sent
           /\ resp.status = 404
           /\ ~resp.success
           /\ resp.error = "Couplet not found"

\* C10 as amended: couplet number 1331 is out of range, so validation
\* answers 400, Validation failed, and the store is not queried
C10_ValidationFailed ==
    AsksNumber(MaxCoupletNumber + 1)
        => /\ resp.sent
           /\ resp.status = 400
           /\ ~resp.success
           /\ resp.error = "Validation failed"
           /\ resp.details =
                <<Detail("number", "Couplet number must be between 1 and 1330")>>
           /\ ops = << >>

C10_Witness ==
    /\ AsksNumber(MaxCoupletNumber + 1)
    /\ resp.sent
    /\ resp.status = 400

(***************************************************************************)
(* C11.  For every number in 1..1330, GET /couplets/{number} answers with  *)
(* a success response containing the stored document whose number equals   *)
(* the requested one when such a document exists, and with status 404 and  *)
(* {success:false, error:'Couplet not found'} when none exists; it never   *)
(* returns a document with a different number.  (Spec)                     *)
(***************************************************************************)
\* a request for a couplet number in range, without a translators list,
\* served while the store works
PlainNumberRequest ==
    /\ Done
    /\ req.mount = "couplets"
    /\ Len(req.path) = 1
    /\ req.path[1].isInt
    /\ req.path[1].num >= 1 /\ req.path[1].num <= MaxCoupletNumber
    /\ ~req.translators.given
    /\ req.fault = "none"

\* the positions of the store holding the requested number
Holders == {i \in 1..Len(db) : db[i].number = req.path[1].num}

\* C11: a number in range is answered with the stored document of that
\* number, or with 404 Couplet not found when the store holds none
C11_SingleCouplet ==
    PlainNumberRequest
        => /\ resp.sent
           /\ IF Holders = {}
              THEN /\ resp.status = 404
                   /\ ~resp.success
                   /\ resp.error = "Couplet not found"
                   /\ resp.couplets = << >>
              ELSE /\ resp.status = 200
                   /\ resp.success
                   /\ Len(resp.couplets) = 1
                   /\ resp.couplets[1].number = req.path[1].num
                   /\ \E i \in Holders : resp.couplets[1] = db[i]

\* couplet 3 is asked for and returned from a store that holds it last
C11_Witness ==
    /\ PlainNumberRequest
    /\ req.path[1].num = 3
    /\ Len(db) = 3 /\ db[3].number = 3
    /\ resp.status = 200
    /\ resp.couplets = <<db[3]>>

(***************************************************************************)
(* C12.  On every route, a request with any malformed or out-of-range      *)
(* parameter (page < 1, limit outside 1..100, number outside 1..1330,      *)
(* filter out of range, search term shorter than 2 or longer than 100      *)
(* characters, ill-formed translator list, unknown lang) is answered with  *)
(* status 400 and a per-field details list, and no store operation (find,  *)
(* count, findOne) is executed for that request.  (SpecRoutes)             *)
(***************************************************************************)
IsNumberRequest == req.mount = "couplets" /\ Len(req.path) = 1 /\ ~IsSearchRequest
IsTranslatorsRequest == req.mount = "translators" /\ req.path = << >>

\* a translator ID: lower-case letters, digits and underscores
WellFormedId(t) ==
    /\ Len(t) > 0
    /\ \A i \in 1..Len(t) : t[i] \in LowerCase \cup Digits \cup {"_"}

\* the pieces of the translators parameter without the spaces around them
TrimmedPieces == {Trim(req.translators.pieces[i]) : i \in 1..Len(req.translators.pieces)}

\* the parameters of the request that are malformed, by name, among the
\* parameters its route takes
MalformedFields ==
    (IF (IsListRequest \/ IsSearchRequest) /\ req.page.given
            /\ ~(req.page.isInt /\ req.page.val >= 1)
     THEN {"page"} ELSE {})
    \cup (IF (IsListRequest \/ IsSearchRequest) /\ req.limit.given
                /\ ~(req.limit.isInt /\ req.limit.val >= 1
                        /\ req.limit.val <= MaxLimitAllowed)
          THEN {"limit"} ELSE {})
    \cup (IF IsNumberRequest
                /\ ~(req.path[1].isInt /\ req.path[1].num >= 1
                        /\ req.path[1].num <= MaxCoupletNumber)
          THEN {"number"} ELSE {})
    \cup (IF IsSearchRequest /\ ~ValidFilter(req.chapter, MaxChapter)
          THEN {"chapter"} ELSE {})
    \cup (IF IsSearchRequest /\ ~ValidFilter(req.section, MaxSection)
          THEN {"section"} ELSE {})
    \cup (IF IsSearchRequest /\ ~ValidFilter(req.division, MaxDivision)
          THEN {"division"} ELSE {})
    \cup (IF IsSearchRequest /\ ~ValidTerm THEN {"q"} ELSE {})
    \cup (IF (IsListRequest \/ IsNumberRequest \/ IsSearchRequest)
                /\ req.translators.given
                /\ (TrimmedPieces \subseteq {<< >>}
                    \/ \E t \in TrimmedPieces : t # << >> /\ ~WellFormedId(t))
          THEN {"translators"} ELSE {})
    \cup (IF IsTranslatorsRequest /\ req.lang.given
                /\ req.lang.code \notin {"en", "hi", "ta"}
          THEN {"lang"} ELSE {})

StoreFailed == Done /\ req.fault # "none"

\* C13: a failed store operation ends in 500, success:false, and outside
\* development the body carries neither the error's message nor details
C13_GenericError ==
    StoreFailed
        => /\ resp.sent
           /\ resp.status = 500
           /\ ~resp.success
           /\ nodeEnv # "development"
                => /\ resp.error # StoreError.message
                   /\ \A i \in 1..Len(resp.details) :
                        resp.details[i] # StoreError.message

(***************************************************************************)
(* C14.  In the translator directory, each language list holds at most one *)
(* entry per normalized ID, and that entry's name and year are those of    *)
(* the first record with that ID met when scanning the documents in store  *)
(* order (translations before interpretations inside a document); author   *)
(* strings that differ only in case or punctuation collapse into that      *)
(* single entry and later records never overwrite it.  (SpecDirectory)     *)
(***************************************************************************)
\* a directory was returned
DirectoryServed ==
    /\ Done /\ IsTranslatorsRequest
    /\ resp.sent /\ resp.success /\ resp.handler = "translators"

\* a record as the scan meets it, with the kind of list it came from
Met(record, source) == [author |-> record.author, year |-> record.year, source |-> source]

\* the records of a document that go to a language, in the order of the scan
MetIn(doc, language) ==
    (IF language \in DOMAIN doc.translations
     THEN [i \in 1..Len(doc.translations[language]) |->
                Met(doc.translations[language][i], "translations")]
     ELSE << >>)
    \o (IF language = "ta"
        THEN [i \in 1..Len(doc.tamil_interpretations) |->
                Met(doc.tamil_interpretations[i], "tamil_interpretations")]
        ELSE << >>)

\* the same over the documents of a store, in store order
RECURSIVE MetInStore(_, _)
MetInStore(docs, language) ==
    IF docs = << >> THEN << >>
    ELSE MetIn(Head(docs), language) \o MetInStore(Tail(docs), language)

\* the first record with an author of the given ID is the k-th met
FirstWithId(met, id, k) ==
    /\ k \in 1..Len(met)
    /\ met[k].author # << >>
    /\ IdOf(met[k].author) = id
    /\ \A j \in 1..(k - 1) : met[j].author = << >> \/ IdOf(met[j].author) # id

\* C14: no ID twice in a list, and every entry has the name and year of
\* the first record met with its ID
C14_FirstSeenWins ==
    DirectoryServed
        => \A language \in DOMAIN resp.translators :
            LET list == resp.translators[language]
                met == MetInStore(db, language)
            IN  /\ \A i, j \in 1..Len(list) : i # j => list[i].id # list[j].id
                /\ \A i \in 1..Len(list) :
                    \E k \in 1..Len(met) :
                        /\ FirstWithId(met, list[i].id, k)
                        /\ list[i].name = met[k].author
                        /\ list[i].year = met[k].year

\* couplet 1 ("gu", 1900) is stored before couplet 5 ("G. U", 1886): the
\* one English entry gu bears the name and year of couplet 1
C14_Witness ==
    /\ DirectoryServed
    /\ NumbersOf(db) = <<1, 5>>
    /\ "en" \in DOMAIN resp.translators
    /\ \E i \in 1..Len(resp.translators["en"]) :
        /\ resp.translators["en"][i].id = <<"g", "u">>
        /\ resp.translators["en"][i].name = <<"g", "u">>
        /\ resp.translators["en"][i].year = 1900

(***************************************************************************)
(* C15.  For every interpretation record that has an author, the           *)
(* directory's ta list contains an entry with that record's normalized ID, *)
(* language 'ta' and type 'commentary'; every entry sourced from the       *)
(* translations map has type 'translation' and the language of the map key *)
(* it came from.  (SpecDirectory)                                          *)
(***************************************************************************)
\* the entry of a list with the given ID has the given language and type
HasEntry(list, id, language, type) ==
    \E i \in 1..Len(list) :
        /\ list[i].id = id
        /\ list[i].language = language
        /\ list[i].type = type

\* C15: every authored interpretation has its commentary entry under ta,
\* and every entry that came from a translations list is a translation of
\* that list's language
C15_EntryTypes ==
    DirectoryServed
        => /\ "ta" \in DOMAIN resp.translators
                => \A d \in 1..Len(db) :
                    \A i \in 1..Len(db[d].tamil_interpretations) :
                        LET record == db[d].tamil_interpretations[i] IN
                        record.author # << >>
                            => HasEntry(resp.translators["ta"], IdOf(record.author),
                                        "ta", "commentary")
           /\ \A language \in DOMAIN resp.translators :
                LET list == resp.translators[language]
                    met == MetInStore(db, language)
                IN  \A i \in 1..Len(list) :
                        \A k \in 1..Len(met) :
                            (FirstWithId(met, list[i].id, k)
                                /\ met[k].source = "translations")
                                => /\ list[i].type = "translation"
                                   /\ list[i].language = language

\* couplet 6 alone: its interpretation without an author leaves no entry,
\* the one of S is a commentary under ta, and "e." is a translation under en
C15_Witness ==
    /\ DirectoryServed
    /\ NumbersOf(db) = <<6>>
    /\ ~req.lang.given
    /\ resp.translators["ta"] = <<Entry(<<"s">>, <<"S">>, 1950, "ta", "commentary")>>
    /\ resp.translators["en"] = <<Entry(<<"e">>, <<"e", ".">>, 1999, "en", "translation")>>
    /\ resp.translators["hi"] = << >>

(***************************************************************************)
(* C16.  For every corpus, the empty one included, GET /translators with a *)
(* lang filter returns a translators object with exactly one key, the      *)
(* requested language, holding that language's list; without lang it       *)
(* returns exactly the three lists en, hi and ta.  (SpecDirectory)         *)
(***************************************************************************)
\* the directory the same request without lang is answered with
WholeDirectory == GetTranslators(db, [req EXCEPT !.lang = NoLang], nodeEnv).resp.translators

\* C16: with a valid lang the directory has that one key and that
\* language's list, without lang the three keys
C16_DirectoryShape ==
    (/\ Done /\ IsTranslatorsRequest
     /\ req.lang.given => req.lang.code \in {"en", "hi", "ta"}
     /\ req.fault = "none")
        => /\ resp.sent /\ resp.success
           /\ IF req.lang.given
              THEN /\ DOMAIN resp.translators = {req.lang.code}
                   /\ resp.translators[req.lang.code] = WholeDirectory[req.lang.code]
              ELSE DOMAIN resp.translators = {"en", "hi", "ta"}

(***************************************************************************)
(* C17.  The search endpoint accepts every section filter value in 1..133  *)
(* (as it does for chapter) and applies it as a filter; only section       *)
(* values outside 1..133 are rejected with a validation error.             *)
(* (SpecRoutes)                                                            *)
(***************************************************************************)
\* the largest section number the README documents for the section filter
DocumentedMaxSection == 133

\* a search request with a section filter, and nothing else that could be
\* rejected
SectionSearch ==
    /\ Done /\ IsSearchRequest
    /\ req.section.given
    /\ ValidTerm /\ ValidPaging
    /\ ValidFilter(req.chapter, MaxChapter) /\ ValidFilter(req.division, MaxDivision)
    /\ ~req.translators.given
    /\ req.fault = "none"

\* C17: a section value in 1..133 is accepted and applied; any other is
\* rejected by validation
C17_SectionRange ==
    SectionSearch
        => IF req.section.isInt /\ req.section.val >= 1
                /\ req.section.val <= DocumentedMaxSection
           THEN /\ SearchServed
                /\ resp.filters.section = req.section.val
                /\ \A i \in 1..Len(resp.couplets) :
                        resp.couplets[i].section = req.section.val
           ELSE /\ resp.sent
                /\ resp.status = 400
                /\ resp.error = "Validation failed"

(***************************************************************************)
(* C18.  After any sequence of list, single-couplet, search and translator *)
(* requests, in any interleaving, the set of stored documents and each     *)
(* document's content are identical to what they were before the first     *)
(* request: handlers issue only find, count and findOne, and projecting a  *)
(* returned document with an allow-list never changes the document it was  *)
(* given.  (SpecRoutes)                                                    *)
(***************************************************************************)
ReadOperations == {"find", "count", "findOne"}

EmptyCorpusPage == PlainValidPageRequest /\ db = << >>

\* C19 as claimed: on an empty corpus every valid page reports no total, no
\* pages, no next and no previous page, and no couplets
C19_EmptyCorpus ==
    EmptyCorpusPage
        => /\ PageServed
           /\ resp.pagination.total = 0
           /\ resp.pagination.totalPages = 0
           /\ ~resp.pagination.hasNext
           /\ ~resp.pagination.hasPrev
           /\ resp.couplets = << >>

\* C19 as amended: the same, but hasPrev is TRUE on every page after the
\* first
C19_EmptyCorpusPrev ==
    EmptyCorpusPage
        => /\ PageServed
           /\ resp.pagination.total = 0
           /\ resp.pagination.totalPages = 0
           /\ ~resp.pagination.hasNext
           /\ resp.pagination.hasPrev = (AskedPage > 1)
           /\ resp.couplets = << >>

\* page 2 of a search on an empty corpus: nothing, and a previous page
C19_Witness ==
    /\ EmptyCorpusPage /\ PageServed /\ IsSearchRequest
    /\ AskedPage = 2
    /\ resp.pagination.total = 0
    /\ resp.pagination.totalPages = 0
    /\ resp.pagination.hasPrev

(***************************************************************************)
(* C20.  The pattern the search handler gives to the store is equivalent,  *)
(* for every validated search term and every document, to an unanchored    *)
(* case-insensitive regular expression built from the term exactly as the  *)
(* client sent it: transforming the term before building the pattern (the  *)
(* handler lower-cases it) never changes which documents match, including  *)
(* for terms containing regex escapes whose meaning depends on letter      *)
(* case.  (SpecRoutes)                                                     *)
(***************************************************************************)
\* the pattern built from the validated term as it was sent matches in one
\* of the searched texts of the document
TermAsSentMatches(doc) ==
    \E text \in SearchedTexts(doc) : RegExpTest(AskedTerm, text)

\* C20: the documents a search returns are those the pattern built from the
\* term as sent matches
C20_PatternOfTermAsSent ==
    (SearchServed /\ WholeResult /\ req.q.given)
        => \A i \in 1..Len(db) :
            FiltersHold(db[i]) => (Returned(db[i]) <=> TermAsSentMatches(db[i]))

(***************************************************************************)
(* C21.  Each language list of the translator directory is in              *)
(* non-decreasing order of year for every corpus, including corpora where  *)
(* some translator records carry no year.  (SpecDirectory)                 *)
(***************************************************************************)
\* C21: of two entries of a list that both have a year, the earlier in the
\* list has the earlier or the same year
C21_SortedByYear ==
    DirectoryServed
        => \A language \in DOMAIN resp.translators :
            LET list == resp.translators[language] IN
            \A i, j \in 1..Len(list) :
                (i < j /\ list[i].year # NoYear /\ list[j].year # NoYear)
                    => list[i].year <= list[j].year

(***************************************************************************)
(* C23.  If any document's translations map has a language key other than  *)
(* en, hi or ta, the translator directory request does not return a        *)
(* directory: the scan fails on that key, the failure is passed to the     *)
(* error handler and the request ends with an error response (status 500), *)
(* whatever lang filter was supplied.  (SpecDirectory)                     *)
(***************************************************************************)
\* the language keys of a document that the directory has no map for
ForeignKeys(doc) == DOMAIN doc.translations \ Languages

\* some document of the store has such a key
HasForeignKey == \E d \in 1..Len(db) : ForeignKeys(db[d]) # {}

\* some document of the store has, under such a key, a record with an author
HasForeignAuthor ==
    \E d \in 1..Len(db) : \E language \in ForeignKeys(db[d]) :
        \E i \in 1..Len(db[d].translations[language]) :
            db[d].translations[language][i].author # << >>

\* the request ended through the error handler with status 500 and no
\* directory
EndedInError ==
    /\ resp.sent /\ resp.status = 500 /\ ~resp.success
    /\ resp.handler = "errorHandler"
    /\ resp.translators = NoDirectory

\* C23, as stated: with a language key other than en, hi or ta in any
\* document, a directory request ends with status 500 through the error
\* handler, whichever of the lang values that pass validation it carries
C23_ForeignKeyFails ==
    (Done /\ IsTranslatorsRequest /\ HasForeignKey /\ validateLanguage(req) = << >>)
        => EndedInError

\* C23: with a record that has an author under a language key other than en,
\* hi or ta, a directory request whose lang parameter is absent or one of
\* en, hi, ta ends with status 500 through the error handler, without a
\* directory
C23_ForeignAuthorFails ==
    (Done /\ IsTranslatorsRequest /\ HasForeignAuthor /\ validateLanguage(req) = << >>)
        => EndedInError

\* the scan failed on the French record of couplet 8 although only the Hindi
\* list was asked for, after the store handed out its documents
C23_Witness ==
    /\ Done /\ IsTranslatorsRequest /\ HasForeignAuthor
    /\ req.lang = Lang("hi") /\ req.fault = "none"
    /\ Len(db) > 1
    /\ EndedInError
    /\ resp.error = ScanError.message
    /\ ops = <<Op("find", EmptyQuery)>>

(***************************************************************************)
(* C24.  For a search term that passes validation (2 to 100 characters)    *)
(* but is not a syntactically valid regular expression, the search handler *)
(* executes no store query, and the request ends through the error handler *)
(* with status 500 and success:false, not with a 400 validation response   *)
(* and not with a result page.  (SpecRoutes)                               *)
(***************************************************************************)
\* a search whose term has an allowed length and is not a pattern, the other
\* parameters valid, without a translators list; the store working or not
InvalidPatternSearch ==
    /\ Done /\ IsSearchRequest
    /\ req.q.given /\ ValidTerm /\ ~ValidPattern
    /\ ValidPaging /\ ValidFilters
    /\ ~req.translators.given

\* C24: such a search runs no store operation and ends with status 500 and
\* success:false from the error handler, with no couplets and no pagination
C24_InvalidPattern ==
    InvalidPatternSearch
        => /\ ops = << >>
           /\ resp.sent
           /\ resp.status = 500
           /\ ~resp.success
           /\ resp.handler = "errorHandler"
           /\ resp.couplets = << >>
           /\ resp.pagination = NoPagination

\* the term "a\" searched on a store with documents
C24_Witness ==
    /\ InvalidPatternSearch
    /\ AskedTerm = <<"a", "\\">>
    /\ req.fault = "none"
    /\ db # << >>
    /\ ops = << >>
    /\ resp.status = 500 /\ resp.handler = "errorHandler"
    /\ resp.error = PatternError.message

(***************************************************************************)
(* C22.  For a fixed query and limit over an unchanged corpus, the pages    *)
(* 1..totalPages returned by the list or search handler, concatenated in   *)
(* page order, are exactly the whole matching set sorted by number: every  *)
(* matching document appears on exactly one page, no page in 1..totalPages *)
(* is empty, every page above totalPages is empty, and hasNext on page p   *)
(* is true exactly when page p+1 is non-empty.  (SpecRoutes)               *)
(***************************************************************************)
\* the response to the request of this state asked again for page p, same
\* query and limit, same store
PageOf(p) ==
    LET again == [req EXCEPT !.page = Num(p)] IN
    IF IsListRequest THEN GetCouplets(db, again, nodeEnv).resp
    ELSE SearchCouplets(db, again, nodeEnv).resp

\* the couplets of pages 1..p, one page after the other
RECURSIVE PagesUpTo(_)
PagesUpTo(p) == IF p = 0 THEN << >> ELSE PagesUpTo(p - 1) \o PageOf(p).couplets

\* the matching documents of the store in ascending order of number
MatchingSorted ==
    [i \in 1..Cardinality(MatchingNumbers) |->
        LET n == CHOOSE m \in MatchingNumbers : RankOf(m) = i - 1 IN
        db[CHOOSE k \in 1..Len(db) : db[k].number = n]]

\* the pages of 1..last that a couplet number is on
PagesWith(n, last) ==
    {p \in 1..last : \E i \in 1..Len(PageOf(p).couplets) : PageOf(p).couplets[i].number = n}

\* how many pages above totalPages are looked at
PagesBeyond == MaxPage

\* C22: the pages 1..totalPages of a query concatenate to the matching
\* documents in order of number; each matching document is on one page only,
\* none of these pages is empty, the pages above are empty, and hasNext on a
\* page says whether the next page has documents
C22_PagesPartition ==
    (PlainValidPageRequest /\ PageServed)
        => LET totalPages == resp.pagination.totalPages IN
           /\ \A p \in 1..(totalPages + PagesBeyond) :
                /\ PageOf(p).sent /\ PageOf(p).success
                /\ PageOf(p).pagination.totalPages = totalPages
           /\ PagesUpTo(totalPages) = MatchingSorted
           /\ \A n \in MatchingNumbers : Cardinality(PagesWith(n, totalPages)) = 1
           /\ \A p \in 1..totalPages : PageOf(p).couplets # << >>
           /\ \A p \in (totalPages + 1)..(totalPages + PagesBeyond) :
                PageOf(p).couplets = << >>
           /\ \A p \in 1..(totalPages + PagesBeyond - 1) :
                PageOf(p).pagination.hasNext <=> (PageOf(p + 1).couplets # << >>)

\* a search with a term whose two matching documents come on two pages of
\* one document each, out of a store of three
C22_Witness ==
    /\ PlainValidPageRequest /\ PageServed /\ resp.handler = "search"
    /\ req.q.given
    /\ Len(db) = 3
    /\ AskedLimit = 1
    /\ resp.pagination.totalPages = 2
    /\ PageOf(1).couplets # << >> /\ PageOf(2).couplets # << >>
    /\ PageOf(1).couplets # PageOf(2).couplets
    /\ PageOf(1).pagination.hasNext /\ ~PageOf(2).pagination.hasNext
    /\ PageOf(3).couplets = << >>

====
